---- MODULE Spec2Model ----
(***************************************************************************)
(* A model of bokeh/transform.py: the seven helpers that build DataSpec    *)
(* mappings (dodge, factor_cmap, jitter, linear_cmap, log_cmap, stack,     *)
(* transform).                                                             *)
(*                                                                         *)
(* Python values are modelled by the text of their literal: "0", "1", "2"  *)
(* are numbers, "None" is None, every other string is a Python string.     *)
(* Sequences (palette, factors, the *fields tuple) are TLA+ sequences of   *)
(* such values.  An object (a Model instance) is a record with its         *)
(* identity `id`, its class `kind` and its property values `props`.        *)
(* A raised exception is a record with an `exception` field.               *)
(***************************************************************************)
EXTENDS Integers, Sequences, FiniteSets, TLC

VARIABLES
    call,       \* the last helper call: its function name and its arguments
    ret,        \* what that call produced: a mapping, or the exception raised
    next_id     \* identity the next constructed object receives

vars == <<call, ret, next_id>>

----------------------------------------------------------------------------
(* Bounds of the model *)

\* how many objects the helpers may construct in one behaviour
MaxObjects == 2
\* longest *fields tuple passed to stack
MaxFields == 3

----------------------------------------------------------------------------
(* Python values *)

None == "None"
\* marks an optional argument the caller did not supply
Omitted == "<omitted>"

NumberLits == {"0", "1", "2"}
NamedColors == {"gray", "red", "blue", "green"}
Ranges == {"FactorRange"}

IsNumber(v) == v \in NumberLits
IsString(v) == v \notin NumberLits \cup {None}
IsColor(v) == v \in NamedColors
IsException(r) == "exception" \in DOMAIN r

\* parameter binding of a def with a default value
Arg(supplied, default) == IF supplied = Omitted THEN default ELSE supplied

----------------------------------------------------------------------------
(* The constructs imported at transform.py:32-35.  Their code is not part  *)
(* of the file; they are modelled after the specification: a constructor   *)
(* stores the keyword arguments as properties, fills in its own defaults   *)
(* for the ones not passed, and rejects an invalid value with its own      *)
(* error.                                                                  *)

\* the constructor's own validation of one property value
Accepts(attr, v) ==
    CASE attr \in {"value", "width", "mean", "low", "high", "start"} -> IsNumber(v)
      [] attr = "end" -> v = None \/ IsNumber(v)
      [] attr = "range" -> v = None \/ v \in Ranges
      [] attr = "distribution" -> v \in {"uniform", "normal"}
      [] attr = "palette" -> \A i \in 1..Len(v) : IsColor(v[i])
      [] attr \in {"factors", "fields"} -> \A i \in 1..Len(v) : IsString(v[i])
      [] attr \in {"low_color", "high_color"} -> v = None \/ IsColor(v)
      [] attr = "nan_color" -> IsColor(v)

Dodge_defaults == [range |-> None]
Jitter_defaults == [mean |-> "0", distribution |-> "uniform", range |-> None]
CategoricalColorMapper_defaults == [start |-> "0", end |-> None, nan_color |-> "gray"]
ContinuousColorMapper_defaults ==
    [low_color |-> None, high_color |-> None, nan_color |-> "gray"]

\* Model.__init__: the properties are the keyword arguments over the defaults;
\* an invalid value raises, and no object comes into being
Model(kind, kw, defaults) ==
    LET props == [a \in DOMAIN kw \cup DOMAIN defaults |->
                     IF a \in DOMAIN kw THEN kw[a] ELSE defaults[a]]
        invalid == {a \in DOMAIN props : ~Accepts(a, props[a])}
    IN  IF invalid # {}
        THEN [exception |-> "ValueError", model |-> kind, invalid |-> invalid]
        ELSE [id |-> next_id, kind |-> kind, props |-> props]

Dodge(kw) == Model("Dodge", kw, Dodge_defaults)
Jitter(kw) == Model("Jitter", kw, Jitter_defaults)
CategoricalColorMapper(kw) ==
    Model("CategoricalColorMapper", kw, CategoricalColorMapper_defaults)
LinearColorMapper(kw) == Model("LinearColorMapper", kw, ContinuousColorMapper_defaults)
LogColorMapper(kw) == Model("LogColorMapper", kw, ContinuousColorMapper_defaults)
\* no default of Stack is documented: it has the properties it is given
Stack(kw) == Model("Stack", kw, <<>>)

\* core.properties.field / expr: the association of a transform with a field
\* name, and the expression-based variant
field(name, t) == [field |-> name, transform |-> t]
expr(expression) == [expr |-> expression]

----------------------------------------------------------------------------
(* Public API, transform.py:55-238.  A helper has no try/except: when the  *)
(* constructor call in its argument list raises, the call of field/expr    *)
(* never happens and the exception leaves the helper.                      *)

\* mutants of dodge: the field name replaced by another argument; a Jitter
\* built where the Dodge belongs; the field name validated by the helper
dodge_field_swapped(field_name, value, range) ==
    LET t == Dodge([value |-> value, range |-> Arg(range, None)])
    IN  IF IsException(t) THEN t ELSE field(value, t)

dodge_builds_jitter(field_name, value, range) ==
    LET t == Jitter([width |-> value, range |-> Arg(range, None)])
    IN  IF IsException(t) THEN t ELSE field(field_name, t)

dodge_validates_field(field_name, value, range) ==
    LET t == Dodge([value |-> value, range |-> Arg(range, None)])
    IN  IF IsException(t) THEN t
        ELSE IF field_name = "" \/ ~IsString(field_name)
             THEN [exception |-> "ValueError", model |-> "dodge", invalid |-> {"field_name"}]
             ELSE field(field_name, t)

\* transform.py:55-73
dodge(field_name, value, range) ==
    LET t == Dodge([value |-> value, range |-> Arg(range, None)])
    IN  IF IsException(t) THEN t ELSE field(field_name, t)

\* transform.py:75-106
factor_cmap(field_name, palette, factors, start, end, nan_color) ==
    LET t == CategoricalColorMapper([palette |-> palette,
                                     factors |-> factors,
                                     start |-> Arg(start, "0"),
                                     end |-> Arg(end, None),
                                     nan_color |-> Arg(nan_color, "gray")])
    IN  IF IsException(t) THEN t ELSE field(field_name, t)

\* mutant of jitter: width and mean follow the order of the constructor call
jitter_swapped(field_name, width, mean, distribution, range) ==
    LET t == Jitter([mean |-> width,
                     width |-> Arg(mean, "0"),
                     distribution |-> Arg(distribution, "uniform"),
                     range |-> Arg(range, None)])
    IN  IF IsException(t) THEN t ELSE field(field_name, t)

\* mutant of jitter: the constructor's error is caught and a default Jitter
\* is returned in its place
jitter_catches(field_name, width, mean, distribution, range) ==
    LET t == Jitter([mean |-> Arg(mean, "0"),
                     width |-> width,
                     distribution |-> Arg(distribution, "uniform"),
                     range |-> Arg(range, None)])
    IN  IF IsException(t)
        THEN field(field_name, Jitter([mean |-> "0", width |-> "1"]))
        ELSE field(field_name, t)

\* transform.py:108-134
jitter(field_name, width, mean, distribution, range) ==
    LET t == Jitter([mean |-> Arg(mean, "0"),
                     width |-> width,
                     distribution |-> Arg(distribution, "uniform"),
                     range |-> Arg(range, None)])
    IN  IF IsException(t) THEN t ELSE field(field_name, t)

\* mutant of linear_cmap: the other continuous mapper is built
linear_cmap_builds_log(field_name, palette, low, high, low_color, high_color, nan_color) ==
    LET t == LogColorMapper([palette |-> palette,
                             low |-> low,
                             high |-> high,
                             nan_color |-> Arg(nan_color, "gray"),
                             low_color |-> Arg(low_color, None),
                             high_color |-> Arg(high_color, None)])
    IN  IF IsException(t) THEN t ELSE field(field_name, t)

\* transform.py:136-169
linear_cmap(field_name, palette, low, high, low_color, high_color, nan_color) ==
    LET t == LinearColorMapper([palette |-> palette,
                                low |-> low,
                                high |-> high,
                                nan_color |-> Arg(nan_color, "gray"),
                                low_color |-> Arg(low_color, None),
                                high_color |-> Arg(high_color, None)])
    IN  IF IsException(t) THEN t ELSE field(field_name, t)

\* mutant of log_cmap: an unset high_color falls back to nan_color
log_cmap_high_default(field_name, palette, low, high, low_color, high_color, nan_color) ==
    LET t == LogColorMapper([palette |-> palette,
                             low |-> low,
                             high |-> high,
                             nan_color |-> Arg(nan_color, "gray"),
                             low_color |-> Arg(low_color, None),
                             high_color |-> Arg(high_color, Arg(nan_color, "gray"))])
    IN  IF IsException(t) THEN t ELSE field(field_name, t)

\* transform.py:171-204
log_cmap(field_name, palette, low, high, low_color, high_color, nan_color) ==
    LET t == LogColorMapper([palette |-> palette,
                             low |-> low,
                             high |-> high,
                             nan_color |-> Arg(nan_color, "gray"),
                             low_color |-> Arg(low_color, None),
                             high_color |-> Arg(high_color, None)])
    IN  IF IsException(t) THEN t ELSE field(field_name, t)

RECURSIVE Dedup(_)
Dedup(s) ==
    IF s = <<>> THEN <<>>
    ELSE LET front == Dedup(SubSeq(s, 1, Len(s) - 1))
             last == s[Len(s)]
         IN  IF \E i \in 1..Len(front) : front[i] = last
             THEN front ELSE Append(front, last)

\* mutant of stack: repeated names are stacked once
stack_dedup(fields) ==
    LET e == Stack([fields |-> Dedup(fields)])
    IN  IF IsException(e) THEN e ELSE expr(e)

\* transform.py:206-222; fields is the tuple of the positional arguments
stack(fields) ==
    LET e == Stack([fields |-> fields])
    IN  IF IsException(e) THEN e ELSE expr(e)

\* mutant of transform: the mapping carries a copy of the transform
transform_copies(field_name, t) ==
    field(field_name, [t EXCEPT !.id = next_id])

\* transform.py:224-238; t is the parameter named transform
transform(field_name, t) == field(field_name, t)

----------------------------------------------------------------------------
(* Inputs of the calls *)

\* "" is the empty string, "1" the number 1 passed where a name belongs
FieldNames == {"x", "", "1"}
ColumnNames == {"x", "y"}
\* tuples with the number 1 where a column name belongs
BadFieldTuples == {<<"1">>, <<"x", "1">>}
Values == {"0", "1", "wide"}
Widths == {"2", "wide"}
Means == {Omitted, "1"}
Distributions == {Omitted, "normal", "bogus"}
RangeArgs == {Omitted, "FactorRange"}
Palettes == {<<"red", "blue">>, <<"green", "1">>}
FactorLists == {<<"a", "b">>}
Starts == {Omitted, "1"}
Ends == {Omitted, "2"}
Lows == {"0"}
Highs == {"2"}
LowColors == {Omitted, "blue"}
HighColors == {Omitted, "green"}
NanColors == {Omitted, "red", "1"}

RECURSIVE Tuples(_, _)
\* the tuples of at most n elements of S
Tuples(S, n) ==
    IF n = 0 THEN {<<>>}
    ELSE LET shorter == Tuples(S, n - 1)
         IN  shorter \cup {Append(t, x) : t \in {u \in shorter : Len(u) = n - 1}, x \in S}

\* transform objects the caller built itself, with the identities 1, 2, ...:
\* one of a class transform.py never constructs, one of a class it does, and
\* one that is no Transform at all
CallerObjects ==
    << [id |-> 1, kind |-> "CustomJSTransform", props |-> [code |-> "return x"]],
       [id |-> 2, kind |-> "Dodge", props |-> [value |-> "2", range |-> None]],
       [id |-> 3, kind |-> "FactorRange", props |-> [factors |-> <<"a", "b">>]] >>

\* the objects a caller can pass to transform: its own, and the transform of
\* the mapping it was returned last
Passable ==
    {CallerObjects[i] : i \in 1..Len(CallerObjects)}
        \cup (IF "transform" \in DOMAIN ret THEN {ret.transform} ELSE {})

FirstId == Len(CallerObjects) + 1

----------------------------------------------------------------------------
(* The calls *)

\* the effect of a call of a helper that constructs its transform: the
\* constructor gave the object the identity next_id, unless it raised
Constructing(fn, args, r) ==
    /\ next_id < FirstId + MaxObjects
    /\ call' = [fn |-> fn, args |-> args]
    /\ ret' = r
    /\ next_id' = IF IsException(r) THEN next_id ELSE next_id + 1

CallDodge ==
    \E field_name \in FieldNames, value \in Values, range \in RangeArgs :
        Constructing("dodge",
                     [field_name |-> field_name, value |-> value, range |-> range],
                     dodge(field_name, value, range))

CallFactorCmap ==
    \E field_name \in FieldNames, palette \in Palettes, factors \in FactorLists,
       start \in Starts, end \in Ends, nan_color \in NanColors :
        Constructing("factor_cmap",
                     [field_name |-> field_name, palette |-> palette,
                      factors |-> factors, start |-> start, end |-> end,
                      nan_color |-> nan_color],
                     factor_cmap(field_name, palette, factors, start, end, nan_color))

CallJitter ==
    \E field_name \in FieldNames, width \in Widths, mean \in Means,
       distribution \in Distributions, range \in RangeArgs :
        Constructing("jitter",
                     [field_name |-> field_name, width |-> width, mean |-> mean,
                      distribution |-> distribution, range |-> range],
                     jitter(field_name, width, mean, distribution, range))

CallLinearCmap ==
    \E field_name \in FieldNames, palette \in Palettes, low \in Lows, high \in Highs,
       low_color \in LowColors, high_color \in HighColors, nan_color \in NanColors :
        Constructing("linear_cmap",
                     [field_name |-> field_name, palette |-> palette, low |-> low,
                      high |-> high, low_color |-> low_color,
                      high_color |-> high_color, nan_color |-> nan_color],
                     linear_cmap(field_name, palette, low, high,
                                 low_color, high_color, nan_color))

CallLogCmap ==
    \E field_name \in FieldNames, palette \in Palettes, low \in Lows, high \in Highs,
       low_color \in LowColors, high_color \in HighColors, nan_color \in NanColors :
        Constructing("log_cmap",
                     [field_name |-> field_name, palette |-> palette, low |-> low,
                      high |-> high, low_color |-> low_color,
                      high_color |-> high_color, nan_color |-> nan_color],
                     log_cmap(field_name, palette, low, high,
                              low_color, high_color, nan_color))

CallStack ==
    \E fields \in Tuples(ColumnNames, MaxFields) \cup BadFieldTuples :
        Constructing("stack", [fields |-> fields], stack(fields))

CallTransform ==
    \E field_name \in FieldNames, t \in Passable :
        /\ call' = [fn |-> "transform", args |-> [field_name |-> field_name, transform |-> t]]
        /\ ret' = transform(field_name, t)
        /\ UNCHANGED next_id

Init ==
    /\ call = [fn |-> "none", args |-> <<>>]
    /\ ret = <<>>
    /\ next_id = FirstId

Next ==
    \/ CallDodge
    \/ CallFactorCmap
    \/ CallJitter
    \/ CallLinearCmap
    \/ CallLogCmap
    \/ CallStack
    \/ CallTransform

Spec == Init /\ [][Next]_vars

----------------------------------------------------------------------------
(* What the documentation of the helpers states, for the properties below  *)

FieldHelpers == {"dodge", "factor_cmap", "jitter", "linear_cmap", "log_cmap", "transform"}
ConstructingHelpers == FieldHelpers \ {"transform"}

ExpectedKind ==
    [dodge |-> "Dodge", jitter |-> "Jitter", factor_cmap |-> "CategoricalColorMapper",
     linear_cmap |-> "LinearColorMapper", log_cmap |-> "LogColorMapper", stack |-> "Stack"]

\* the documented default of each optional argument (the names are unique
\* across the helpers)
DocumentedDefault ==
    [range |-> None, mean |-> "0", distribution |-> "uniform", start |-> "0",
     end |-> None, nan_color |-> "gray", low_color |-> None, high_color |-> None]

Returned == call.fn # "none" /\ ~IsException(ret)
TransformArgs(c) == DOMAIN c.args \ {"field_name"}
Supplied(c, a) == a \notin DOMAIN DocumentedDefault \/ c.args[a] # Omitted
NonEmptyString(v) == IsString(v) /\ v # ""

Construct(kind, kw) ==
    CASE kind = "Dodge" -> Dodge(kw)
      [] kind = "Jitter" -> Jitter(kw)
      [] kind = "CategoricalColorMapper" -> CategoricalColorMapper(kw)
      [] kind = "LinearColorMapper" -> LinearColorMapper(kw)
      [] kind = "LogColorMapper" -> LogColorMapper(kw)
      [] kind = "Stack" -> Stack(kw)

\* the keyword arguments the documentation says call c hands its constructor
DocumentedKwargs(c) ==
    [a \in TransformArgs(c) |->
        IF Supplied(c, a) THEN c.args[a] ELSE DocumentedDefault[a]]

\* the outcome of the constructor of call c's helper on those arguments
Constructed(c) == Construct(ExpectedKind[c.fn], DocumentedKwargs(c))

----------------------------------------------------------------------------
(* Properties *)

\* C1: the mapping a field-based helper returns has a field entry equal to
\* exactly the field_name that was passed in.
FieldNameIsTheOnePassed ==
    (call.fn \in FieldHelpers /\ Returned) => ret.field = call.args.field_name

FieldNameWitness ==
    /\ call.fn = "factor_cmap" /\ Returned
    /\ call.args.field_name = "x" /\ ret.field = "x"

SuppliedArgumentsCarried ==
    (call.fn \in ConstructingHelpers /\ Returned) =>
        /\ DOMAIN ret.transform.props = TransformArgs(call)
        /\ \A a \in TransformArgs(call) :
              Supplied(call, a) => ret.transform.props[a] = call.args[a]

SuppliedArgumentsWitness ==
    /\ call.fn = "jitter" /\ Returned
    /\ call.args.width = "2" /\ call.args.mean = "1"
    /\ call.args.distribution = "normal" /\ call.args.range = "FactorRange"

\* C4: an omitted optional argument has the documented default in the embedded
\* transform, and the transform is the one the constructor builds with its
\* own defaults when the omitted arguments are not passed to it at all.
DefaultsApplied ==
    (call.fn \in ConstructingHelpers /\ Returned) =>
        /\ \A a \in TransformArgs(call) :
              ~Supplied(call, a) => ret.transform.props[a] = DocumentedDefault[a]
        /\ LET passed == {a \in TransformArgs(call) : Supplied(call, a)}
               built == Construct(ExpectedKind[call.fn], [a \in passed |-> call.args[a]])
           IN  ~IsException(built) /\ built.props = ret.transform.props

DefaultsWitness ==
    /\ call.fn = "log_cmap" /\ Returned
    /\ call.args.high_color = Omitted /\ call.args.low_color = Omitted
    /\ call.args.nan_color = "red"
    /\ ret.transform.props.high_color = None

\* C5: stack returns the expression-based mapping with a Stack whose fields are
\* the given names: same length, order and multiplicity; every tuple of
\* names, the empty one included, is accepted.
StackCarriesFields ==
    call.fn = "stack" =>
        /\ Returned <=> \A i \in 1..Len(call.args.fields) : IsString(call.args.fields[i])
        /\ Returned =>
              /\ DOMAIN ret = {"expr"}
              /\ ret.expr.kind = "Stack"
              /\ ret.expr.props = [fields |-> call.args.fields]

StackWitness ==
    /\ call.fn = "stack" /\ Returned
    /\ call.args.fields = <<"y", "x", "y">>
    /\ ret.expr.props.fields = <<"y", "x", "y">>

\* C7: when the constructor rejects an argument, the helper call ends with
\* the constructor's error itself, returns no mapping, and nothing was
\* constructed.
ConstructorErrorPropagates ==
    [][(call'.fn \in ConstructingHelpers \cup {"stack"}
            /\ IsException(Constructed(call')))
        => (ret' = Constructed(call') /\ next_id' = next_id)]_vars

ConstructorErrorWitness ==
    /\ call.fn = "jitter" /\ call.args.distribution = "bogus"
    /\ IsException(ret) /\ ret.model = "Jitter" /\ "distribution" \in ret.invalid

\* C8 as stated: every mapping a field-based helper returns has a field name
\* that is a non-empty string.
ReturnedFieldNameNonEmpty ==
    (call.fn \in FieldHelpers /\ Returned) => NonEmptyString(ret.field)

\* C8 amended: the helpers do not validate the field name: a call returns a
\* mapping exactly when the constructor accepts the other arguments, and the
\* mapping's field name is a non-empty string exactly when the one passed is.
FieldNameNotValidated ==
    /\ call.fn \in ConstructingHelpers => (Returned <=> ~IsException(Constructed(call)))
    /\ call.fn = "transform" => Returned
    /\ (call.fn \in FieldHelpers /\ Returned) =>
          (NonEmptyString(ret.field) <=> NonEmptyString(call.args.field_name))

EmptyFieldNameWitness ==
    /\ call.fn = "dodge" /\ Returned
    /\ call.args.field_name = "" /\ ret.field = ""

TransformPassesObject ==
    [][call'.fn = "transform" =>
          /\ ret' = [field |-> call'.args.field_name, transform |-> call'.args.transform]
          /\ next_id' = next_id
          /\ \A t \in Passable : ~IsException(transform("x", t))]_vars

TransformWitness ==
    /\ call.fn = "transform" /\ Returned
    /\ call.args.transform = CallerObjects[3]
    /\ ret.transform.kind = "FactorRange" /\ ret.transform.id = 3

====
